---- MODULE Spec2Model ----
(***************************************************************************)
(* Model of the trueky new-product workflow:                               *)
(*   - src/src/utils/uploadFile.ts      (uploadFile)                       *)
(*   - src/src/pages/nuevo-producto.tsx (getServerSideProps, NewProductPage)*)
(*   - src/unnamed/part_000             (Home page getServerSideProps)     *)
(* Strings that the code takes apart (file names, storage paths, URLs) are *)
(* sequences of tokens; a file name is a sequence of one-character tokens. *)
(***************************************************************************)
EXTENDS Naturals, Sequences, FiniteSets, TLC

\* ---------------------------------------------------------------- bounds
\* File objects delivered by drop events over the life of the page.
MaxFiles == 2
\* File objects delivered by one drop event.
MaxDrop == 2
\* Number of uploadFile calls (uuidv4 draws) over the life of the page.
MaxUploads == 2

\* ------------------------------------------------------------- constants
null == "null"
MissingImagesMsg == "Debes subir al menos una imagen"
SignInRoute == "/ingresar"
ListingsRoute == "/mis-productos"
ProductsDirectory == <<"products">>
StorageHost == "https://storage.googleapis.com/"
Bucket == "NEXT_PUBLIC_FIREBASE_STORAGE_BUCKET"

\* Users a session can carry; NoSession is getServerAuthSession's null.
Users == {"ana"}
NoSession == [present |-> FALSE]
Sessions == {NoSession} \cup {[present |-> TRUE, user |-> u] : u \in Users}

\* Names of the File objects, in the order the drop events deliver them:
\* "a.p", "b", "c.d.j", "e."
FileNames ==
  << <<"a", ".", "p">>, <<"b">>, <<"c", ".", "d", ".", "j">>, <<"e", ".">> >>
Files == 1..MaxFiles
FileName(f) == FileNames[((f - 1) % Len(FileNames)) + 1]

\* Contents the two text inputs can hold; EmptyForm is what reset() leaves.
\* The createProductDTO schema is not among the sources: every content is
\* taken to pass the resolver and reach onSubmit.
EmptyForm == [name |-> "", description |-> ""]
FormValues == {EmptyForm, [name |-> "iPhone 12", description |-> "como nuevo"]}

VARIABLES
  ssr,          \* last getServerSideProps exchange: [page, session, result]
  nextFile,     \* File objects delivered by drop events so far
  files,        \* useState<File[]>
  loading,      \* useState(false)
  fileError,    \* useState<string | null>(null)
  form,         \* react-hook-form field values
  subs,         \* onSubmit invocations past the empty check, in call order
  nextUuid,     \* uuidv4() draws so far
  storage,      \* objects written by uploadBytes
  createCalls,  \* products.create calls issued by mutate, in call order
  out           \* toasts, analytics events and router pushes emitted

vars ==
  <<ssr, nextFile, files, loading, fileError, form, subs, nextUuid, storage,
    createCalls, out>>

\* ------------------------------------------------------------ uploadFile
\* String.prototype.split with a one-character separator.
RECURSIVE Split(_, _)
Split(s, sep) ==
  IF s = <<>> THEN << <<>> >>
  ELSE LET rest == Split(Tail(s), sep)
       IN IF Head(s) = sep
          THEN << <<>> >> \o rest
          ELSE << <<Head(s)>> \o Head(rest) >> \o Tail(rest)

\* Array.prototype.pop on a non-empty array: its last element.
Pop(arr) == arr[Len(arr)]

\* uuidv4(): the n-th draw, distinct from every other draw.
uuidv4(n) == "u" \o ToString(n)

\* `${directory}/${uuidv4()}.${file.name.split(".").pop()}`
StorageRef(directory, uuid, fileName) ==
  directory \o <<"/", uuid, ".">> \o Pop(Split(fileName, "."))

\* `https://storage.googleapis.com/${bucket}/${filePath}`
PublicUrl(filePath) == <<StorageHost, Bucket, "/">> \o filePath

\* ---------------------------------------------------- getServerSideProps
\* Variant: the redirect is marked permanent.
NewProductGetServerSidePropsPermanent(session) ==
  IF ~session.present
  THEN [redirect |-> [destination |-> SignInRoute, permanent |-> TRUE]]
  ELSE [props |-> [user |-> session.user]]

NewProductGetServerSideProps(session) ==
  IF ~session.present
  THEN [redirect |-> [destination |-> SignInRoute, permanent |-> FALSE]]
  ELSE [props |-> [user |-> session.user]]

HomeGetServerSideProps(session) ==
  IF ~session.present
  THEN [redirect |-> [destination |-> SignInRoute, permanent |-> FALSE]]
  ELSE [props |-> [user |-> session.user]]

\* The new-product page component is rendered once its getServerSideProps
\* has returned props.
Rendered == ssr.page = "nuevo-producto" /\ "props" \in DOMAIN ssr.result

Init ==
  /\ ssr = [page |-> "none", session |-> NoSession, result |-> [none |-> TRUE]]
  /\ nextFile = 0
  /\ files = <<>>
  /\ loading = FALSE
  /\ fileError = null
  /\ form = EmptyForm
  /\ subs = <<>>
  /\ nextUuid = 0
  /\ storage = {}
  /\ createCalls = <<>>
  /\ out = [success |-> 0, error |-> 0, tracked |-> 0, pushes |-> <<>>]

clientVars ==
  <<nextFile, files, loading, fileError, form, subs, nextUuid, storage, createCalls, out>>

\* A request for /nuevo-producto, answered by its getServerSideProps.  The
\* model follows one render of the page: requests come until it is rendered.
RequestNewProduct(session) ==
  /\ ~Rendered
  /\ ssr' = [page |-> "nuevo-producto", session |-> session,
             result |-> NewProductGetServerSideProps(session)]
  /\ UNCHANGED clientVars

\* A request for the home page, answered by its getServerSideProps.
RequestHome(session) ==
  /\ ~Rendered
  /\ ssr' = [page |-> "home", session |-> session,
             result |-> HomeGetServerSideProps(session)]
  /\ UNCHANGED clientVars

\* ------------------------------------------------------- NewProductPage
Range(seq) == {seq[i] : i \in DOMAIN seq}

\* Every drop event delivers File objects of its own: the next 1..MaxDrop.
Drops ==
  {[i \in 1..n |-> nextFile + i] :
     n \in {k \in 1..MaxDrop : nextFile + k <= MaxFiles}}

\* handleDrop; the Dropzone is disabled while loading.
handleDrop(dropped) ==
  /\ Rendered
  /\ ~loading
  /\ files' = files \o dropped
  /\ nextFile' = nextFile + Len(dropped)
  /\ fileError' = null
  /\ UNCHANGED <<ssr, loading, form, subs, nextUuid, storage, createCalls, out>>

\* The Remove button of one listed file.
removeFile(file) ==
  /\ Rendered
  /\ file \in Range(files)
  /\ files' = SelectSeq(files, LAMBDA f : f # file)
  /\ UNCHANGED <<ssr, nextFile, loading, fileError, form, subs, nextUuid, storage,
                 createCalls, out>>

\* Typing into the registered inputs.
editForm(values) ==
  /\ Rendered
  /\ values # form
  /\ form' = values
  /\ UNCHANGED <<ssr, nextFile, files, loading, fileError, subs, nextUuid, storage,
                 createCalls, out>>

Pending == [state |-> "pending"]
Rejected == [state |-> "rejected"]
Fulfilled(v) == [state |-> "fulfilled", value |-> v]

\* Variant: values are collected in completion order (append on completion).
SettleInCompletionOrder(results, i, v) ==
  LET k == CHOOSE k \in DOMAIN results :
             /\ results[k].state = "pending"
             /\ \A j \in 1..(k - 1) : results[j].state # "pending"
  IN [results EXCEPT ![k] = v]

\* Promise.all stores the value of the i-th promise at index i.
Settle(results, i, v) == [results EXCEPT ![i] = v]

\* Variant: the join waits for every promise to settle and skips the
\* rejected ones.
PromiseAllSkippingRejected(results) ==
  IF \A i \in DOMAIN results : results[i].state # "pending"
  THEN "fulfilled"
  ELSE "pending"

\* Promise.all: rejected as soon as one promise rejects, fulfilled once all
\* promises are fulfilled.
PromiseAllState(results) ==
  IF \E i \in DOMAIN results : results[i].state = "rejected" THEN "rejected"
  ELSE IF \A i \in DOMAIN results : results[i].state = "fulfilled"
       THEN "fulfilled"
       ELSE "pending"

\* The array Promise.all fulfils with.
Images(results) ==
  LET ok == SelectSeq(results, LAMBDA r : r.state = "fulfilled")
  IN [i \in 1..Len(ok) |-> ok[i].value]

\* Variant: the empty check is missing.
NoFilesUnchecked(fs) == FALSE

\* files.length === 0
NoFiles(fs) == Len(fs) = 0

\* The code of onSubmit after `await Promise.all(...)`: it runs when the
\* joined promise fulfils, and never when it rejects.
Resumed(sub) ==
  IF sub.phase # "uploading" THEN sub
  ELSE LET st == PromiseAllState(sub.results)
       IN [sub EXCEPT !.phase =
             IF st = "fulfilled" THEN "creating"
             ELSE IF st = "rejected" THEN "rejected"
             ELSE "uploading"]

\* createProductMutation.mutate({...data, images})
Mutated(calls, s, before, after) ==
  IF before.phase = "uploading" /\ after.phase = "creating"
  THEN Append(calls, [name |-> after.data.name,
                      description |-> after.data.description,
                      images |-> Images(after.results),
                      sub |-> s])
  ELSE calls

\* onSubmit, called by handleSubmit with the form's values, up to its await:
\* the uploads are all started here, each with its own storage reference.
\* Neither handleSubmit nor onSubmit reads `loading`, so a submit event of the
\* form runs it whether or not an earlier call is still in flight.  In the
\* empty case setLoading(true) and setLoading(false) run in the same handler.
onSubmit(data) ==
  /\ Rendered
  /\ IF NoFiles(files)
     THEN /\ loading' = FALSE
          /\ fileError' = MissingImagesMsg
          /\ UNCHANGED <<subs, nextUuid, createCalls>>
     ELSE /\ nextUuid + Len(files) <= MaxUploads
          /\ loading' = TRUE
          /\ fileError' = fileError
          /\ nextUuid' = nextUuid + Len(files)
          /\ LET n == Len(files)
                 s == Len(subs) + 1
                 sub == [data |-> data,
                         files |-> files,
                         refs |-> [i \in 1..n |->
                                    StorageRef(ProductsDirectory,
                                               uuidv4(nextUuid + i),
                                               FileName(files[i]))],
                         results |-> [i \in 1..n |-> Pending],
                         order |-> <<>>,
                         phase |-> "uploading"]
             IN /\ subs' = Append(subs, Resumed(sub))
                /\ createCalls' = Mutated(createCalls, s, sub, Resumed(sub))
  /\ UNCHANGED <<ssr, nextFile, files, form, storage, out>>

\* uploadBytes of upload i of submission s succeeds: the object is stored,
\* uploadFile returns its public URL, and onSubmit resumes if this was the
\* last upload it waited for.
uploadFulfilled(s, i) ==
  /\ s \in DOMAIN subs
  /\ i \in DOMAIN subs[s].files
  /\ i \notin Range(subs[s].order)
  /\ LET sub == subs[s]
         filePath == sub.refs[i]
         settled == [sub EXCEPT
                       !.results = Settle(sub.results, i,
                                          Fulfilled(PublicUrl(filePath))),
                       !.order = Append(sub.order, i)]
     IN /\ storage' = storage \cup {[fullPath |-> filePath, file |-> sub.files[i]]}
        /\ subs' = [subs EXCEPT ![s] = Resumed(settled)]
        /\ createCalls' = Mutated(createCalls, s, sub, Resumed(settled))
  /\ UNCHANGED <<ssr, nextFile, files, loading, fileError, form, nextUuid, out>>

\* uploadBytes of upload i of submission s fails: uploadFile rejects, so does
\* Promise.all, and onSubmit ends with that rejection.
uploadRejected(s, i) ==
  /\ s \in DOMAIN subs
  /\ i \in DOMAIN subs[s].files
  /\ i \notin Range(subs[s].order)
  /\ LET sub == subs[s]
         settled == [sub EXCEPT
                       !.results = Settle(sub.results, i, Rejected),
                       !.order = Append(sub.order, i)]
     IN /\ subs' = [subs EXCEPT ![s] = Resumed(settled)]
        /\ createCalls' = Mutated(createCalls, s, sub, Resumed(settled))
  /\ UNCHANGED <<ssr, nextFile, files, loading, fileError, form, nextUuid, storage, out>>

\* Variant: the file list is not cleared.
onSuccessKeepingFiles(s) ==
  /\ s \in DOMAIN subs
  /\ subs[s].phase = "creating"
  /\ subs' = [subs EXCEPT ![s].phase = "created"]
  /\ loading' = FALSE
  /\ out' = [out EXCEPT !.tracked = @ + 1,
                        !.success = @ + 1,
                        !.pushes = Append(@, ListingsRoute)]
  /\ form' = EmptyForm
  /\ UNCHANGED <<ssr, nextFile, files, fileError, nextUuid, storage, createCalls>>

\* createProductMutation.onSuccess
onSuccess(s) ==
  /\ s \in DOMAIN subs
  /\ subs[s].phase = "creating"
  /\ subs' = [subs EXCEPT ![s].phase = "created"]
  /\ loading' = FALSE
  /\ out' = [out EXCEPT !.tracked = @ + 1,
                        !.success = @ + 1,
                        !.pushes = Append(@, ListingsRoute)]
  /\ files' = <<>>
  /\ form' = EmptyForm
  /\ UNCHANGED <<ssr, nextFile, fileError, nextUuid, storage, createCalls>>

\* Variant: the form is reset on failure too.
onErrorResetting(s) ==
  /\ s \in DOMAIN subs
  /\ subs[s].phase = "creating"
  /\ subs' = [subs EXCEPT ![s].phase = "createFailed"]
  /\ loading' = FALSE
  /\ out' = [out EXCEPT !.error = @ + 1]
  /\ form' = EmptyForm
  /\ UNCHANGED <<ssr, nextFile, files, fileError, nextUuid, storage, createCalls>>

\* createProductMutation.onError
onError(s) ==
  /\ s \in DOMAIN subs
  /\ subs[s].phase = "creating"
  /\ subs' = [subs EXCEPT ![s].phase = "createFailed"]
  /\ loading' = FALSE
  /\ out' = [out EXCEPT !.error = @ + 1]
  /\ UNCHANGED <<ssr, nextFile, files, fileError, form, nextUuid, storage, createCalls>>

Next ==
  \/ \E session \in Sessions : RequestNewProduct(session)
  \/ \E session \in Sessions : RequestHome(session)
  \/ \E dropped \in Drops : handleDrop(dropped)
  \/ \E file \in Files : removeFile(file)
  \/ \E values \in FormValues : editForm(values)
  \/ onSubmit(form)
  \/ \E s \in 1..MaxUploads, i \in 1..MaxFiles : uploadFulfilled(s, i)
  \/ \E s \in 1..MaxUploads, i \in 1..MaxFiles : uploadRejected(s, i)
  \/ \E s \in 1..MaxUploads : onSuccess(s)
  \/ \E s \in 1..MaxUploads : onError(s)

Spec == Init /\ [][Next]_vars
\* ================================================================ claims
InPhase(phases) == {s \in DOMAIN subs : subs[s].phase \in phases}
HasRejectedUpload(s) ==
  \E i \in DOMAIN subs[s].results : subs[s].results[i].state = "rejected"
CallsOf(s) == {k \in DOMAIN createCalls : createCalls[k].sub = s}

\* C1: submitting while the file list is empty starts no upload, calls no
\* products.create and sets the "at least one image" error; every
\* products.create call ever issued carries a non-empty images list.
C1_NoProductWithoutImages ==
  /\ [](\A k \in DOMAIN createCalls : Len(createCalls[k].images) > 0)
  /\ [][(files = <<>> /\ onSubmit(form)) =>
          /\ subs' = subs
          /\ nextUuid' = nextUuid
          /\ storage' = storage
          /\ createCalls' = createCalls
          /\ fileError' = "Debes subir al menos una imagen"]_vars

\* An empty submission of a filled form has run (only it sets the error) and
\* left nothing in flight.
C1_Witness ==
  /\ fileError = "Debes subir al menos una imagen"
  /\ form # EmptyForm
  /\ files = <<>>
  /\ subs = <<>>
  /\ createCalls = <<>>

\* C2: the images list of every products.create call has one entry per
\* selected file, and its i-th entry is the URL returned by the upload of the
\* i-th selected file, whatever the order in which the uploads completed.
C2_ImagesInSelectionOrder ==
  \A k \in DOMAIN createCalls :
    LET c == createCalls[k]
        sub == subs[c.sub]
    IN /\ Len(c.images) = Len(sub.files)
       /\ \A i \in DOMAIN sub.files :
            /\ [fullPath |-> sub.refs[i], file |-> sub.files[i]] \in storage
            /\ c.images[i] =
                 <<"https://storage.googleapis.com/", Bucket, "/">> \o sub.refs[i]

\* A create call was issued after upload #2 completed before upload #1.
C2_Witness ==
  \E k \in DOMAIN createCalls :
    /\ Len(createCalls[k].images) >= 2
    /\ subs[createCalls[k].sub].order[1] = 2

C4_AtMostOneInFlight == Cardinality(InPhase({"uploading", "creating"})) <= 1

\* C5: every submission that failed, by an upload or by the create call, has
\* been surfaced by an error toast.
C5_UploadFailureToasted ==
  out.error >= Cardinality(InPhase({"rejected", "createFailed"}))

\* C6: each successful products.create empties the file list, resets the
\* form, emits one success notification and pushes /mis-productos exactly
\* once.
C6_SuccessClearsAndNavigatesOnce ==
  /\ [](/\ out.success = Cardinality(InPhase({"created"}))
        /\ Len(out.pushes) = Cardinality(InPhase({"created"}))
        /\ \A n \in DOMAIN out.pushes : out.pushes[n] = "/mis-productos")
  /\ [][(\E s \in DOMAIN subs :
            subs[s].phase = "creating" /\ subs'[s].phase = "created")
          => /\ files' = <<>>
             /\ form' = [name |-> "", description |-> ""]
             /\ out'.success = out.success + 1
             /\ out'.pushes = Append(out.pushes, "/mis-productos")]_vars

\* A create call of a populated form has just succeeded.
C6_Witness ==
  \E s \in DOMAIN subs :
    /\ subs[s].phase = "created"
    /\ subs[s].data # EmptyForm
    /\ files = <<>>
    /\ form = EmptyForm
    /\ out.pushes = <<"/mis-productos">>
    /\ out.success = 1

\* C7: a rejected products.create emits an error notification and leaves the
\* form field values and the file list unchanged, with no success
\* notification and no navigation.
C7_CreateFailurePreservesState ==
  /\ [](out.error >= Cardinality(InPhase({"createFailed"})))
  /\ [][(\E s \in DOMAIN subs :
            subs[s].phase = "creating" /\ subs'[s].phase = "createFailed")
          => /\ out'.error = out.error + 1
             /\ files' = files
             /\ form' = form
             /\ out'.success = out.success
             /\ out'.pushes = out.pushes]_vars

\* A create call has been rejected and the submitted form and files are
\* still in place.
C7_Witness ==
  \E s \in DOMAIN subs :
    /\ subs[s].phase = "createFailed"
    /\ files = subs[s].files
    /\ form = subs[s].data
    /\ form # EmptyForm
    /\ out.error = 1
    /\ out.pushes = <<>>

\* C8: on both pages a request without a session is answered by a redirect
\* to /ingresar with permanent: false and no props; props, carrying the
\* session's user, are returned only when a session exists.
C8_UnauthenticatedRedirect ==
  ssr.page \in {"home", "nuevo-producto"} =>
    IF ~ssr.session.present
    THEN /\ DOMAIN ssr.result = {"redirect"}
         /\ ssr.result.redirect.destination = "/ingresar"
         /\ ssr.result.redirect.permanent = FALSE
    ELSE /\ DOMAIN ssr.result = {"props"}
         /\ ssr.result.props.user = ssr.session.user

\* The new-product page was requested without a session.
C8_Witness ==
  /\ ssr.page = "nuevo-producto"
  /\ ~ssr.session.present
  /\ "redirect" \in DOMAIN ssr.result

\* The part of a file name after its last ".", empty when it has none.
LastDot(name) ==
  LET dots == {i \in DOMAIN name : name[i] = "."}
  IN IF dots = {} THEN 0 ELSE CHOOSE i \in dots : \A j \in dots : j <= i
ExtensionAfterLastDot(name) ==
  IF LastDot(name) = 0 THEN <<>>
  ELSE SubSeq(name, LastDot(name) + 1, Len(name))

\* C9: every upload's storage path is d/<uniqueId>.<ext> with <ext> the part
\* of the file name after its last "."; for a file name without "." nothing
\* (or nothing but the ".") follows the identifier.
C9_PathExtension ==
  \A s \in DOMAIN subs : \A i \in DOMAIN subs[s].files :
    LET name == FileName(subs[s].files[i])
    IN \E n \in 1..MaxUploads :
         \/ subs[s].refs[i] =
              <<"products", "/", uuidv4(n), ".">> \o ExtensionAfterLastDot(name)
         \/ /\ LastDot(name) = 0
            /\ subs[s].refs[i] = <<"products", "/", uuidv4(n)>>

\* C10: once every upload and create call of every submission has completed,
\* the loading flag is clear.
C10_LoadingClearedWhenSettled ==
  (\A s \in DOMAIN subs :
      /\ subs[s].phase \notin {"uploading", "creating"}
      /\ \A i \in DOMAIN subs[s].results : subs[s].results[i].state # "pending")
    => loading = FALSE
====
